---- MODULE Spec2Model ----
(***************************************************************************)
(* Model of the GPT-2 text prediction notebook                             *)
(* (notebooks/223-gpt2-text-prediction): the logit post-processing         *)
(* functions process_logits, get_top_k_logits and softmax, and the         *)
(* generation loop generate_sequence; and of the CTC greedy decoding       *)
(* cells of the handwritten OCR notebook.                                  *)
(*                                                                         *)
(* The specifications of the module:                                       *)
(*   Spec      the generation loop of generate_sequence;                   *)
(*   SpecTopK  the pipeline process_logits -> get_top_k_logits -> softmax  *)
(*             -> np.random.choice applied to bounded inputs;              *)
(*   SpecCTC   the decoding cells applied to bounded engine outputs.       *)
(* FairSpec adds the loop's fairness to Spec, SpecMinLength a caller's     *)
(* minimum length, SpecCTCShort a charlist shorter than the label space.   *)
(* In the GPT-2 model the batch axis of every array has size 1 and is      *)
(* left out; the OCR model keeps it, since np.squeeze acts on it.          *)
(***************************************************************************)
EXTENDS Integers, Sequences, FiniteSets, TLC

----------------------------------------------------------------------------
(* Bounds of the model *)

\* number of vocabulary entries (scores.shape[-1]); GPT-2 has 50257
VocabSize == 3
\* the engine's logits in the generation loop are drawn from 0..MaxLogit
MaxLogit == 1
\* the logits given to the post-processing pipeline are drawn from 0..MaxScore
MaxScore == 2
\* longest prompt drawn
MaxPromptLen == 2
\* largest max_sequence_length drawn; also caps the modelled sequence length
MaxSeqLen == 3
\* largest min_length / cur_length drawn for process_logits in SpecTopK
MaxMinLength == 1
\* most time steps of a recognition output drawn
MaxSteps == 3
\* labels of a recognition output drawn: the blank and the charlist
NumLabels == 3

----------------------------------------------------------------------------
(* Values *)

Vocab == 0 .. (VocabSize - 1)

\* tokenizer.eos_token_id: the last entry of the GPT-2 vocabulary
eos_token_id == VocabSize - 1

\* top_k = 20 inside generate_sequence
top_k == 20

\* -float("inf"), encoded as an integer below every finite score
NegInf == 0 - 1

\* filter_value = -float("inf")
filter_value == NegInf

\* the logit vectors the inference engine answers with in the loop (finite)
LogitVectors == [Vocab -> 0 .. MaxLogit]

\* the logit vectors the post-processing pipeline is applied to (finite)
ScoreVectors == [Vocab -> 0 .. MaxScore]

\* min_length=0, the default of process_logits that generate_sequence relies on
DefaultMinLength == 0

Max(a, b) == IF a >= b THEN a ELSE b

Min(a, b) == IF a <= b THEN a ELSE b

----------------------------------------------------------------------------
(* process_logits *)

\* if cur_length < min_length: scores[:, eos_token_id] = -inf; return scores
\* variant: the end of text score is also suppressed at the minimum length
process_logits_inclusive(cur_length, scores, eos, min_length) ==
    IF cur_length <= min_length
    THEN [scores EXCEPT ![eos] = NegInf]
    ELSE scores

process_logits(cur_length, scores, eos, min_length) ==
    IF cur_length < min_length
    THEN [scores EXCEPT ![eos] = NegInf]
    ELSE scores

----------------------------------------------------------------------------
(* get_top_k_logits *)

\* the largest value of a non-empty set of scores
SetMax(S) == CHOOSE x \in S : \A y \in S : y <= x

\* the smallest value of a non-empty set of scores (np.min)
SetMin(S) == CHOOSE x \in S : \A y \in S : x <= y

RECURSIVE SortDescFrom(_, _)
\* the values scores[i], i in idx, as a descending sequence
SortDescFrom(scores, idx) ==
    IF idx = {} THEN <<>>
    ELSE LET m == SetMax({scores[i] : i \in idx})
             j == CHOOSE i \in idx : scores[i] = m
         IN <<m>> \o SortDescFrom(scores, idx \ {j})

\* -np.sort(-scores): the scores in descending order
SortDesc(scores) == SortDescFrom(scores, DOMAIN scores)

\* variant: the upper clamp is one too small
ClampTopKShort(k, n) == Min(Max(k, 1), n - 1)

\* variant: the lower clamp is 2 instead of 1
ClampTopKTwo(k, n) == Min(Max(k, 2), n)

\* top_k = min(max(top_k, 1), scores.shape[-1])
ClampTopK(k, n) == Min(Max(k, 1), n)

\* -np.sort(-scores)[:, :top_k]
TopKScores(scores, k) == SubSeq(SortDesc(scores), 1, k)

\* variant: the threshold itself is removed as well (scores <= threshold)
IndicesToRemoveStrict(scores, threshold) ==
    {i \in DOMAIN scores : scores[i] <= threshold}

\* indices_to_remove = scores < np.min(top_k_scores)
IndicesToRemove(scores, threshold) == {i \in DOMAIN scores : scores[i] < threshold}

\* a value above every score
PosInf == MaxScore + 1

\* variant: the removed entries are filled with +inf
FilledPosInf(scores, remove) ==
    [i \in DOMAIN scores |-> IF i \in remove THEN PosInf ELSE scores[i]]

\* np.ma.array(scores, mask=indices_to_remove, fill_value=filter_value).filled()
Filled(scores, remove) ==
    [i \in DOMAIN scores |-> IF i \in remove THEN filter_value ELSE scores[i]]

get_top_k_logits(scores, k) ==
    LET kk == ClampTopK(k, Cardinality(DOMAIN scores))
        top_k_scores == TopKScores(scores, kk)
        threshold == SetMin({top_k_scores[j] : j \in 1 .. Len(top_k_scores)})
    IN Filled(scores, IndicesToRemove(scores, threshold))

----------------------------------------------------------------------------
(* softmax and sampling *)

\* variant: a filtered score takes part with the weight of the lowest score
ExpWeightsFloor(x) ==
    LET fin == {x[i] : i \in DOMAIN x} \ {NegInf}
        lo == IF fin = {} THEN 0 ELSE SetMin(fin)
    IN [i \in DOMAIN x |-> IF x[i] = NegInf THEN 1 ELSE 2 ^ (x[i] - lo)]

\* np.exp(x - max) up to the common factor exp(max - lo), lo the smallest
\* finite score: exp is modelled by the powers of 2 (positive, increasing,
\* multiplicative), and exp(-inf) = 0
\* (a row of -inf only gives nan: weights 0 over the sum 0)
ExpWeights(x) ==
    LET fin == {x[i] : i \in DOMAIN x} \ {NegInf}
        lo == IF fin = {} THEN 0 ELSE SetMin(fin)
    IN [i \in DOMAIN x |-> IF x[i] = NegInf THEN 0 ELSE 2 ^ (x[i] - lo)]

RECURSIVE SumOver(_, _)
\* e_x.sum(axis=-1)
SumOver(w, idx) ==
    IF idx = {} THEN 0
    ELSE LET j == CHOOSE i \in idx : TRUE
         IN w[j] + SumOver(w, idx \ {j})

\* softmax(x): probability i is num[i] / den
softmax(x) ==
    LET e_x == ExpWeights(x)
    IN [num |-> e_x, den |-> SumOver(e_x, DOMAIN x)]

\* the indices np.random.choice(n, 1, p=probs) can return: those of
\* positive probability
ChoiceSupport(probs) == {i \in DOMAIN probs.num : probs.num[i] > 0}

----------------------------------------------------------------------------
(* generate_sequence: state *)

VARIABLES
    prompt,                     \* input_ids as passed by the caller
    mask0,                      \* attention_mask as passed by the caller
    max_sequence_length,
    dynamic_shapes,
    input_ids,                  \* the loop's token sequence
    attention_mask,             \* the loop's mask
    model_input_ids,            \* the last input built for the engine
    model_input_attention_mask,
    next_tokens,                \* the token sampled in the current iteration
    pc,                         \* "call", "check", "done", "error"
    iters,                      \* loop iterations started
    calls,                      \* engine invocations
    failures,                   \* engine invocations that raised
    logits_position,            \* the position of outputs the logits are read at
    caller_input_ids,           \* content of the array the caller passed as input_ids
    caller_attention_mask,      \* content of the array passed as attention_mask
    shared,                     \* input_ids and attention_mask are still the caller's arrays
    \* SpecTopK
    stage,
    next_token_logits,
    k_in,
    cur_length,
    min_length,
    next_token_scores,
    filtred_scores,
    probs,
    token,
    token2,
    refiltred_scores            \* get_top_k_logits applied to filtred_scores

loopVars == <<prompt, mask0, max_sequence_length, dynamic_shapes, input_ids,
              attention_mask, model_input_ids, model_input_attention_mask,
              next_tokens, pc, iters, calls, failures, logits_position,
              caller_input_ids, caller_attention_mask, shared>>

pipeVars == <<stage, next_token_logits, k_in, cur_length, min_length,
              next_token_scores, filtred_scores, probs, token, token2,
              refiltred_scores>>

VARIABLES
    engine_output,              \* predictions as returned by the engine
    letters,                    \* blank_char followed by the charlist
    predictions,                \* predictions after np.squeeze
    predictions_indexes,        \* np.argmax(predictions, axis=1)
    output_text_indexes,        \* group keys without the blanks
    output_text,                \* the decoded symbols
    ctc_pc,                     \* "predicted", "argmax", "decoded", "error"
    ctc_round,                  \* 1: engine output, 2: its re-expanded text
    first_text                  \* output_text of round 1

ctcVars == <<engine_output, letters, predictions, predictions_indexes,
             output_text_indexes, output_text, ctc_pc, ctc_round, first_text>>

vars == <<loopVars, pipeVars, ctcVars>>

NoToken == 0 - 1

NoVector == <<>>

NoPosition == 0 - 1

\* sequences over S of length lo..hi
SeqsOf(S, lo, hi) == UNION {[1 .. n -> S] : n \in lo .. hi}

\* [[x] * n]: n copies of x, empty when n <= 0
Repeat(x, n) == [i \in 1 .. n |-> x]

CtcIdle ==
    /\ engine_output = <<>>
    /\ letters = <<>>
    /\ predictions = <<>>
    /\ predictions_indexes = <<>>
    /\ output_text_indexes = <<>>
    /\ output_text = <<>>
    /\ ctc_pc = "idle"
    /\ ctc_round = 0
    /\ first_text = <<>>

PipeIdle ==
    /\ stage = "idle"
    /\ next_token_logits = NoVector
    /\ k_in = 0
    /\ cur_length = 0
    /\ min_length = 0
    /\ next_token_scores = NoVector
    /\ filtred_scores = NoVector
    /\ probs = NoVector
    /\ token = NoToken
    /\ token2 = NoToken
    /\ refiltred_scores = NoVector

LoopIdle ==
    /\ prompt = <<>>
    /\ mask0 = <<>>
    /\ max_sequence_length = 0
    /\ dynamic_shapes = TRUE
    /\ input_ids = <<>>
    /\ attention_mask = <<>>
    /\ model_input_ids = <<>>
    /\ model_input_attention_mask = <<>>
    /\ next_tokens = NoToken
    /\ pc = "idle"
    /\ iters = 0
    /\ calls = 0
    /\ failures = 0
    /\ logits_position = NoPosition
    /\ caller_input_ids = <<>>
    /\ caller_attention_mask = <<>>
    /\ shared = TRUE

----------------------------------------------------------------------------
(* generate_sequence: the loop *)

\* the call generate_sequence(input_ids, attention_mask, max_sequence_length,
\* eos_token_id, dynamic_shapes): tokenize gives a mask as long as the ids
LoopStart ==
    /\ prompt \in SeqsOf(Vocab, 0, MaxPromptLen)
    /\ mask0 \in [1 .. Len(prompt) -> {0, 1}]
    /\ max_sequence_length \in (0 - 1) .. MaxSeqLen
    /\ dynamic_shapes \in BOOLEAN
    /\ input_ids = prompt
    /\ attention_mask = mask0
    /\ model_input_ids = <<>>
    /\ model_input_attention_mask = <<>>
    /\ next_tokens = NoToken
    /\ pc = "call"
    /\ iters = 0
    /\ calls = 0
    /\ failures = 0
    /\ logits_position = NoPosition
    /\ caller_input_ids = prompt
    /\ caller_attention_mask = mask0
    /\ shared = TRUE

Init == LoopStart /\ PipeIdle /\ CtcIdle

\* variant: the concatenation extends its first argument in place
ConcatenateInPlace(caller, is_shared, result) ==
    IF is_shared THEN result ELSE caller

\* the content of a caller's array after np.concatenate((a, ..)) gave result:
\* np.concatenate returns a new array and leaves a alone, whether or not a
\* is the caller's array
AfterConcatenate(caller, is_shared, result) == caller

\* the caller's array after the model input was built from a: concatenated
\* when padding (lines 326-327), a itself otherwise (lines 329-330)
AfterModelInput(caller, is_shared, result, dyn) ==
    IF dyn THEN caller ELSE AfterConcatenate(caller, is_shared, result)

\* variant: the mask is padded with 1
PadMaskOnes(mask, cur_input_len, max_len, dyn) ==
    IF dyn THEN mask ELSE mask \o Repeat(1, max_len - cur_input_len)

\* pad_len = max_sequence_length - cur_input_len
\* np.concatenate((input_ids, [[eos_token_id] * pad_len]), axis=-1)
PadIds(ids, eos, max_len, dyn) ==
    IF dyn THEN ids ELSE ids \o Repeat(eos, max_len - Len(ids))

\* np.concatenate((attention_mask, [[0] * pad_len]), axis=-1)
PadMask(mask, cur_input_len, max_len, dyn) ==
    IF dyn THEN mask ELSE mask \o Repeat(0, max_len - cur_input_len)

\* outputs[:, cur_input_len - 1, :] exists: the engine's output has one
\* position per input position, and index -1 is the last one
LogitsIndexable(model_input) == Len(model_input) >= 1

\* variant: the logits of the last position of the output are read
LogitsPositionLast(cur_input_len, n) == n - 1

\* the position read by outputs[:, cur_input_len - 1, :] of an output with n
\* positions: a negative index counts from the end
LogitsPosition(cur_input_len, n) ==
    IF cur_input_len - 1 >= 0 THEN cur_input_len - 1 ELSE n + (cur_input_len - 1)

\* the tokens one iteration can sample from the engine's logits
SampledFrom(logits, cur_input_len) ==
    ChoiceSupport(softmax(get_top_k_logits(
        process_logits(cur_input_len, logits, eos_token_id, DefaultMinLength),
        top_k)))

\* the tokens one iteration can sample, over all answers of the engine
SamplableTokens(cur_input_len) ==
    UNION {SampledFrom(logits, cur_input_len) : logits \in LogitVectors}

\* lines 323-341: build the model input, invoke the engine, post-process
\* the logits of the last position and sample the next token
Infer ==
    /\ pc = "call"
    /\ LET mi == PadIds(input_ids, eos_token_id, max_sequence_length, dynamic_shapes)
           mm == PadMask(attention_mask, Len(input_ids), max_sequence_length,
                         dynamic_shapes)
       IN /\ LogitsIndexable(mi)
          /\ model_input_ids' = mi
          /\ model_input_attention_mask' = mm
          /\ caller_input_ids' =
                AfterModelInput(caller_input_ids, shared, mi, dynamic_shapes)
          /\ caller_attention_mask' =
                AfterModelInput(caller_attention_mask, shared, mm, dynamic_shapes)
          /\ logits_position' = LogitsPosition(Len(input_ids), Len(mi))
          /\ \E tok \in SamplableTokens(Len(input_ids)) : next_tokens' = tok
    /\ pc' = "check"
    /\ iters' = iters + 1
    /\ calls' = calls + 1
    /\ UNCHANGED <<prompt, mask0, max_sequence_length, dynamic_shapes,
                   input_ids, attention_mask, failures, shared, pipeVars,
                   ctcVars>>

\* variant: the exception is swallowed and the call is made again
EngineFailRetry ==
    /\ pc = "call"
    /\ failures < MaxSeqLen
    /\ model_input_ids' =
          PadIds(input_ids, eos_token_id, max_sequence_length, dynamic_shapes)
    /\ model_input_attention_mask' =
          PadMask(attention_mask, Len(input_ids), max_sequence_length,
                  dynamic_shapes)
    /\ pc' = "call"
    /\ iters' = iters + 1
    /\ calls' = calls + 1
    /\ failures' = failures + 1
    /\ caller_input_ids' =
          AfterModelInput(caller_input_ids, shared, model_input_ids',
                          dynamic_shapes)
    /\ caller_attention_mask' =
          AfterModelInput(caller_attention_mask, shared,
                          model_input_attention_mask', dynamic_shapes)
    /\ UNCHANGED <<prompt, mask0, max_sequence_length, dynamic_shapes,
                   input_ids, attention_mask, next_tokens, logits_position,
                   shared, pipeVars, ctcVars>>

\* the engine call of line 331 raises: the exception leaves generate_sequence
EngineFail ==
    /\ pc = "call"
    /\ model_input_ids' =
          PadIds(input_ids, eos_token_id, max_sequence_length, dynamic_shapes)
    /\ model_input_attention_mask' =
          PadMask(attention_mask, Len(input_ids), max_sequence_length,
                  dynamic_shapes)
    /\ pc' = "error"
    /\ iters' = iters + 1
    /\ calls' = calls + 1
    /\ failures' = failures + 1
    /\ caller_input_ids' =
          AfterModelInput(caller_input_ids, shared, model_input_ids',
                          dynamic_shapes)
    /\ caller_attention_mask' =
          AfterModelInput(caller_attention_mask, shared,
                          model_input_attention_mask', dynamic_shapes)
    /\ UNCHANGED <<prompt, mask0, max_sequence_length, dynamic_shapes,
                   input_ids, attention_mask, next_tokens, logits_position,
                   shared, pipeVars, ctcVars>>

\* variant: only the end of text token stops the loop
ShouldBreakEosOnly(cur_input_len, max_len, tok, eos) == tok = eos

\* variant: only the maximum length stops the loop
ShouldBreakLenOnly(cur_input_len, max_len, tok, eos) == cur_input_len = max_len

\* variant: the length test is off by one
ShouldBreakLate(cur_input_len, max_len, tok, eos) ==
    cur_input_len = max_len + 1 \/ tok = eos

\* line 343: cur_input_len == max_sequence_length or next_tokens == eos_token_id
ShouldBreak(cur_input_len, max_len, tok, eos) ==
    cur_input_len = max_len \/ tok = eos

\* variant: the new token is put in front
AppendTokenFront(ids, tok) == <<tok>> \o ids

\* variant: the new token is appended twice
AppendTokenTwice(ids, tok) == Append(Append(ids, tok), tok)

\* line 346: np.concatenate((input_ids, [next_tokens]), axis=-1)
AppendToken(ids, tok) == Append(ids, tok)

\* variant: the mask is extended with a 0
ExtendMaskZero(mask) == Append(mask, 0)

\* line 347: np.concatenate((attention_mask, [[1] * len(next_tokens)]), axis=-1)
ExtendMask(mask) == Append(mask, 1)

\* lines 343-344 and 348: break and return input_ids
Break ==
    /\ pc = "check"
    /\ ShouldBreak(Len(input_ids), max_sequence_length, next_tokens, eos_token_id)
    /\ pc' = "done"
    /\ UNCHANGED <<prompt, mask0, max_sequence_length, dynamic_shapes,
                   input_ids, attention_mask, model_input_ids,
                   model_input_attention_mask, next_tokens, iters, calls,
                   failures, logits_position, caller_input_ids,
                   caller_attention_mask, shared, pipeVars, ctcVars>>

\* lines 345-347: append the token, extend the mask, loop
AppendStep ==
    /\ pc = "check"
    /\ ~ShouldBreak(Len(input_ids), max_sequence_length, next_tokens, eos_token_id)
    /\ Len(input_ids) < MaxSeqLen
    /\ input_ids' = AppendToken(input_ids, next_tokens)
    /\ attention_mask' = ExtendMask(attention_mask)
    /\ caller_input_ids' =
          AfterConcatenate(caller_input_ids, shared, input_ids')
    /\ caller_attention_mask' =
          AfterConcatenate(caller_attention_mask, shared, attention_mask')
    /\ shared' = FALSE
    /\ pc' = "call"
    /\ UNCHANGED <<prompt, mask0, max_sequence_length, dynamic_shapes,
                   model_input_ids, model_input_attention_mask, next_tokens,
                   iters, calls, failures, logits_position, pipeVars,
                   ctcVars>>

Next == EngineFail \/ Infer \/ Break \/ AppendStep

Spec == Init /\ [][Next]_vars

\* the step that leaves the loop head, written by its effect on pc: within
\* Spec these are the steps of EngineFail and Infer, and EngineFail is
\* enabled whenever pc = "call"
LoopHead == pc = "call" /\ pc' \in {"check", "error"}

\* the loop is sequential code: a step that can be taken is taken
FairSpec == Spec /\ WF_pc(LoopHead) /\ WF_vars(Break \/ AppendStep)

\* generate_sequence called by a caller that wants the minimum length
\* min_length honoured: generate_sequence has no such parameter and calls
\* process_logits with its default
InitMinLength ==
    /\ LoopStart
    /\ stage = "idle"
    /\ next_token_logits = NoVector
    /\ k_in = 0
    /\ cur_length = 0
    /\ min_length \in 0 .. MaxSeqLen
    /\ next_token_scores = NoVector
    /\ filtred_scores = NoVector
    /\ probs = NoVector
    /\ token = NoToken
    /\ token2 = NoToken
    /\ refiltred_scores = NoVector
    /\ CtcIdle

SpecMinLength == InitMinLength /\ [][Next]_vars

----------------------------------------------------------------------------
(* The post-processing pipeline on bounded inputs *)

\* one engine answer, the top_k given to get_top_k_logits, and the
\* cur_length and min_length given to process_logits
InitTopK ==
    /\ LoopIdle
    /\ CtcIdle
    /\ stage = "logits"
    /\ next_token_logits \in ScoreVectors
    /\ k_in \in (0 - 1) .. (VocabSize + 1)
    /\ cur_length \in 0 .. MaxMinLength
    /\ min_length \in 0 .. MaxMinLength
    /\ next_token_scores = NoVector
    /\ filtred_scores = NoVector
    /\ probs = NoVector
    /\ token = NoToken
    /\ token2 = NoToken
    /\ refiltred_scores = NoVector

\* next_token_scores = process_logits(cur_length, next_token_logits, eos, min_length)
ProcessLogits ==
    /\ stage = "logits"
    /\ next_token_scores' =
          process_logits(cur_length, next_token_logits, eos_token_id, min_length)
    /\ stage' = "processed"
    /\ UNCHANGED <<ctcVars, loopVars, next_token_logits, k_in, cur_length, min_length,
                   filtred_scores, probs, token, token2,
                   refiltred_scores>>

\* next_token_scores = get_top_k_logits(next_token_scores, top_k)
TopKFilter ==
    /\ stage = "processed"
    /\ filtred_scores' = get_top_k_logits(next_token_scores, k_in)
    /\ stage' = "filtered"
    /\ UNCHANGED <<ctcVars, loopVars, next_token_logits, k_in, cur_length, min_length,
                   next_token_scores, probs, token, token2,
                   refiltred_scores>>

\* probs = softmax(next_token_scores)
Softmax ==
    /\ stage = "filtered"
    /\ probs' = softmax(filtred_scores)
    /\ stage' = "normalized"
    /\ UNCHANGED <<ctcVars, loopVars, next_token_logits, k_in, cur_length, min_length,
                   next_token_scores, filtred_scores, token, token2,
                   refiltred_scores>>

\* next_tokens = np.random.choice(probs.shape[-1], 1, p=probs[0], replace=True)
Sample ==
    /\ stage = "normalized"
    /\ \E tok \in ChoiceSupport(probs) : token' = tok
    /\ stage' = "sampled"
    /\ UNCHANGED <<ctcVars, loopVars, next_token_logits, k_in, cur_length, min_length,
                   next_token_scores, filtred_scores, probs, token2,
                   refiltred_scores>>

\* a second run of np.random.choice on the same probabilities
Resample ==
    /\ stage = "sampled"
    /\ \E tok \in ChoiceSupport(probs) : token2' = tok
    /\ stage' = "resampled"
    /\ UNCHANGED <<ctcVars, loopVars, next_token_logits, k_in, cur_length, min_length,
                   next_token_scores, filtred_scores, probs, token,
                   refiltred_scores>>

\* get_top_k_logits applied to its own result, with the same top_k
Refilter ==
    /\ stage = "filtered"
    /\ refiltred_scores' = get_top_k_logits(filtred_scores, k_in)
    /\ stage' = "refiltered"
    /\ UNCHANGED <<ctcVars, loopVars, next_token_logits, k_in, cur_length, min_length,
                   next_token_scores, filtred_scores, probs, token, token2>>

NextTopK ==
    ProcessLogits \/ TopKFilter \/ Softmax \/ Sample \/ Resample \/ Refilter

SpecTopK == InitTopK /\ [][NextTopK]_vars

----------------------------------------------------------------------------
(* CTC greedy decoding of a recognition output *)

\* the blank symbol placed at index 0 of letters
blank_char == "~"

\* the symbols a charlist file is read from, one per line
Alphabet == <<"A", "B", "C", "D">>

\* letters = blank_char + "".join(line.strip() for line in charlist)
Letters(charlist) == <<blank_char>> \o charlist

\* the scores of a frame are drawn from these
Levels == 0 .. 1

Labels(n) == 0 .. (n - 1)

\* the frame whose only highest label is l
OneHot(l, n) == [i \in Labels(n) |-> IF i = l THEN 1 ELSE 0]

\* recognition outputs of shape (w, 1, NumLabels), 1 <= w <= MaxSteps
EngineOutputs ==
    UNION {[1 .. w -> [1 .. 1 -> [Labels(NumLabels) -> Levels]]] :
              w \in 1 .. MaxSteps}

\* np.squeeze(predictions): every axis of size 1 is removed, the batch axis
\* and, for an output of one time step, the time axis as well (label axes
\* have size >= 2 here); an axis of size 0 stays
Squeeze(p) ==
    IF Len(p) = 1
    THEN [ndim |-> 1, data |-> p[1][1]]
    ELSE [ndim |-> 2, data |-> [t \in 1 .. Len(p) |-> p[t][1]]]

\* np.argmax of one row: the first index at which the maximum occurs
ArgMaxRow(row) ==
    SetMin({i \in DOMAIN row : row[i] = SetMax({row[j] : j \in DOMAIN row})})

\* np.argmax(predictions, axis=1)
ArgMaxAxis1(x) == [t \in 1 .. Len(x) |-> ArgMaxRow(x[t])]

\* variant: nothing is collapsed
GroupKeysAll(s) == s

RECURSIVE GroupKeys(_)
\* the keys of list(groupby(s)) (the first row of its transpose): one per
\* maximal run of equal elements
GroupKeys(s) ==
    IF s = <<>> THEN <<>>
    ELSE IF Len(s) >= 2 /\ s[1] = s[2] THEN GroupKeys(Tail(s))
    ELSE <<s[1]>> \o GroupKeys(Tail(s))

\* output_text_indexes[output_text_indexes != 0]
RemoveBlank(s) == SelectSeq(s, LAMBDA i : i # 0)

\* variant: the blanks are removed before the runs are collapsed
DecodeIndexesStripFirst(idx) == GroupKeys(RemoveBlank(idx))

\* lines 398-404: collapse the runs, then remove the blanks
DecodeIndexes(idx) == RemoveBlank(GroupKeys(idx))

\* letters[letter_index] is defined for 0 <= letter_index < len(letters)
LettersIndexable(ltrs, idxs) == \A k \in 1 .. Len(idxs) : idxs[k] < Len(ltrs)

\* [letters[letter_index] for letter_index in output_text_indexes]
AssignLetters(ltrs, idxs) == [k \in 1 .. Len(idxs) |-> ltrs[idxs[k] + 1]]

\* the label count of a recognition output with at least one time step
LabelCount(p) == Cardinality(DOMAIN p[1][1])

\* the index of symbol sym in letters
LabelOf(ltrs, sym) == (CHOOSE i \in 1 .. Len(ltrs) : ltrs[i] = sym) - 1

\* one frame per symbol of text, with that symbol's label as only arg-max
ExpandFrames(text, ltrs, n) ==
    [k \in 1 .. Len(text) |-> <<OneHot(LabelOf(ltrs, text[k]), n)>>]

\* the frames whose arg-max labels are idx
FramesOf(idx, n) == [t \in 1 .. Len(idx) |-> <<OneHot(idx[t], n)>>]

ExampleIndexes == <<0, 0, 2, 2, 3, 0, 3>>

ExampleCharlist == SubSeq(Alphabet, 1, 3)

ExampleOutput == FramesOf(ExampleIndexes, Len(ExampleCharlist) + 1)

CtcStart ==
    /\ LoopIdle
    /\ PipeIdle
    /\ predictions = <<>>
    /\ predictions_indexes = <<>>
    /\ output_text_indexes = <<>>
    /\ output_text = <<>>
    /\ ctc_pc = "predicted"
    /\ ctc_round = 1
    /\ first_text = <<>>

\* a recognition output and the charlist of its labels
InitCTC ==
    /\ CtcStart
    /\ \/ /\ engine_output \in EngineOutputs
          /\ letters = Letters(SubSeq(Alphabet, 1, NumLabels - 1))
       \/ /\ engine_output = ExampleOutput
          /\ letters = Letters(ExampleCharlist)

\* a recognition output and a charlist shorter than its label space
InitCTCShort ==
    /\ CtcStart
    /\ engine_output \in EngineOutputs
    /\ \E n \in 0 .. (NumLabels - 2) : letters = Letters(SubSeq(Alphabet, 1, n))

\* predictions = np.squeeze(predictions)
\* predictions_indexes = np.argmax(predictions, axis=1): raises for an array
\* of one dimension
DecodeArgMax ==
    /\ ctc_pc = "predicted"
    /\ predictions' = Squeeze(engine_output)
    /\ IF predictions'.ndim = 2
       THEN /\ predictions_indexes' = ArgMaxAxis1(predictions'.data)
            /\ ctc_pc' = "argmax"
       ELSE /\ predictions_indexes' = predictions_indexes
            /\ ctc_pc' = "error"
    /\ UNCHANGED <<loopVars, pipeVars, engine_output, letters,
                   output_text_indexes, output_text, ctc_round, first_text>>

\* lines 398-407: np.transpose(.., (1, 0)) raises for an empty list of
\* groups, letters[letter_index] for an index beyond letters
DecodeText ==
    /\ ctc_pc = "argmax"
    /\ IF GroupKeys(predictions_indexes) = <<>>
       THEN /\ ctc_pc' = "error"
            /\ UNCHANGED <<output_text_indexes, output_text>>
       ELSE /\ output_text_indexes' = DecodeIndexes(predictions_indexes)
            /\ IF LettersIndexable(letters, output_text_indexes')
               THEN /\ output_text' =
                          AssignLetters(letters, output_text_indexes')
                    /\ ctc_pc' = "decoded"
               ELSE /\ output_text' = output_text
                    /\ ctc_pc' = "error"
    /\ UNCHANGED <<loopVars, pipeVars, engine_output, letters, predictions,
                   predictions_indexes, ctc_round, first_text>>

\* the decoded text is turned into frames again and given to the decoder
Expand ==
    /\ ctc_pc = "decoded"
    /\ ctc_round = 1
    /\ first_text' = output_text
    /\ engine_output' =
          ExpandFrames(output_text, letters, LabelCount(engine_output))
    /\ predictions' = <<>>
    /\ predictions_indexes' = <<>>
    /\ output_text_indexes' = <<>>
    /\ output_text' = <<>>
    /\ ctc_round' = 2
    /\ ctc_pc' = "predicted"
    /\ UNCHANGED <<loopVars, pipeVars, letters>>

NextCTC == DecodeArgMax \/ DecodeText \/ Expand

SpecCTC == InitCTC /\ [][NextCTC]_vars

SpecCTCShort == InitCTCShort /\ [][NextCTC]_vars

----------------------------------------------------------------------------
(* Properties of generate_sequence (checked under Spec / FairSpec) *)

\* s is a prefix of t
IsPrefix(s, t) == Len(s) <= Len(t) /\ SubSeq(t, 1, Len(s)) = s

Terminated == pc \in {"done", "error"}

\* C1: with a non-empty prompt and max_sequence_length = len(prompt), the
\* loop never changes the token sequence and what generate_sequence returns
\* is the prompt, after the single iteration that runs, whatever was sampled
C1_ReturnsPromptAtMaxLength ==
    (Len(prompt) >= 1 /\ max_sequence_length = Len(prompt))
        => /\ input_ids = prompt
           /\ pc = "done" => iters = 1

\* a run with max_sequence_length = len(prompt) returned after sampling a
\* token that is not the end of text token
C1_Witness ==
    /\ pc = "done"
    /\ Len(prompt) >= 1
    /\ max_sequence_length = Len(prompt)
    /\ next_tokens # eos_token_id
    /\ next_tokens # NoToken

\* C2: no generated position (index >= len(prompt), 0-based) ever holds the
\* end of text token; a freshly sampled end of text token ends the loop with
\* the sequence unchanged; and the loop ends only for a fresh end of text
\* token or at the maximum length, never for an end of text token of the prompt
C2_EosNeverAppended ==
    /\ [](\A i \in (Len(prompt) + 1) .. Len(input_ids) :
              input_ids[i] # eos_token_id)
    /\ [][(pc = "check" /\ next_tokens = eos_token_id)
              => (pc' = "done" /\ input_ids' = input_ids)]_vars
    /\ [][(pc = "check" /\ pc' = "done")
              => (next_tokens = eos_token_id
                     \/ Len(input_ids) = max_sequence_length)]_vars
    /\ [][(pc = "check" /\ next_tokens # eos_token_id
              /\ Len(input_ids) # max_sequence_length)
              => input_ids' = Append(input_ids, next_tokens)]_vars

\* a prompt holding the end of text token was extended by a token before a
\* sampled end of text token stopped the loop short of the maximum length
C2_Witness ==
    /\ pc = "done"
    /\ next_tokens = eos_token_id
    /\ \E i \in 1 .. Len(prompt) : prompt[i] = eos_token_id
    /\ Len(input_ids) = Len(prompt) + 1
    /\ Len(input_ids) < max_sequence_length

\* C3: when len(prompt) <= max_sequence_length, the loop's token sequence
\* is never longer than max_sequence_length nor shorter than the prompt, in
\* every state and so in the returned sequence
C3_LengthWithinMax ==
    Len(prompt) <= max_sequence_length
        => /\ Len(input_ids) <= max_sequence_length
           /\ Len(prompt) <= Len(input_ids)

\* a run that grew the sequence up to max_sequence_length and returned it
C3_Witness ==
    /\ pc = "done"
    /\ Len(prompt) < max_sequence_length
    /\ Len(input_ids) = max_sequence_length
    /\ next_tokens # eos_token_id

\* C4: when len(prompt) <= max_sequence_length and the engine answers every
\* call, generate_sequence returns, and it never starts more than
\* max_sequence_length - len(prompt) + 1 iterations
C4_Terminates ==
    /\ ((Len(prompt) <= max_sequence_length /\ [](pc # "error"))
           => <>(pc = "done"))
    /\ [](Len(prompt) <= max_sequence_length
           => iters <= max_sequence_length - Len(prompt) + 1)

\* a run that never sampled the end of text token returned in its
\* (max_sequence_length - len(prompt) + 1)-th iteration
C4_Witness ==
    /\ pc = "done"
    /\ Len(prompt) >= 1
    /\ Len(prompt) + 1 < max_sequence_length
    /\ iters = max_sequence_length - Len(prompt) + 1
    /\ next_tokens # eos_token_id

\* C5: max_sequence_length stops the iteration for every call: no token is
\* appended to a sequence whose length is already >= max_sequence_length,
\* so a sequence longer than the prompt is at most max_sequence_length long
C5_MaxLengthAlwaysStops ==
    Len(input_ids) > Len(prompt) => Len(input_ids) <= max_sequence_length

\* C6: a step either leaves the token sequence as it is or, from the
\* termination check, appends the sampled token (which is not the end of text
\* token) at its end; the terminal step leaves it unchanged, a step back to
\* the loop head makes it one longer; the prompt stays a prefix
C6_GrowsByAppendOnly ==
    /\ [][\/ input_ids' = input_ids
          \/ /\ pc = "check"
             /\ next_tokens # eos_token_id
             /\ input_ids' = Append(input_ids, next_tokens)]_vars
    /\ [][pc' = "done" => input_ids' = input_ids]_vars
    /\ [][(pc = "check" /\ pc' = "call")
              => Len(input_ids') = Len(input_ids) + 1]_vars
    /\ [](IsPrefix(prompt, input_ids))

\* a returned sequence that is the prompt and two generated tokens
C6_Witness ==
    /\ pc = "done"
    /\ Len(prompt) >= 1
    /\ Len(input_ids) = Len(prompt) + 2

\* C7: the mask is as long as the token sequence in every state, its first
\* len(prompt) entries are the caller's, and every later entry is 1
C7_MaskParallel ==
    /\ Len(attention_mask) = Len(input_ids)
    /\ IsPrefix(mask0, attention_mask)
    /\ \A i \in (Len(mask0) + 1) .. Len(attention_mask) : attention_mask[i] = 1

\* a mask that came with a 0 was extended during generation
C7_Witness ==
    /\ \E i \in 1 .. Len(mask0) : mask0[i] = 0
    /\ Len(attention_mask) > Len(mask0)
    /\ pc = "done"

----------------------------------------------------------------------------
(* Further properties of generate_sequence *)

\* tokens appended so far
Appended == Len(input_ids) - Len(prompt)

\* C11: generate honours min_length: a step whose current length is below
\* min_length never samples the end of text token, and a run stopped by the
\* end of text token returns at least min_length tokens
C11_HonoursMinLength ==
    /\ (pc = "check" /\ Len(input_ids) < min_length)
          => next_tokens # eos_token_id
    /\ (pc = "done" /\ next_tokens = eos_token_id
           /\ Len(input_ids) # max_sequence_length)
          => Len(input_ids) >= min_length

\* C16: an engine failure ends generate_sequence in the error outcome: at
\* most one call ever fails (no retry), and from the failure on the loop is
\* neither at its head, nor sampling, nor returned
C16_EngineFailurePropagates ==
    /\ failures <= 1
    /\ failures = 1 => pc = "error"
    /\ pc = "error" => (failures = 1 /\ calls = Appended + 1)

\* the engine failed in the step after a token had been appended
C16_Witness ==
    /\ pc = "error"
    /\ Appended = 1
    /\ calls = 2

\* C17: called with an empty prompt or a non-positive max_sequence_length,
\* generate_sequence appends nothing and returns nothing
C17_InvalidInputRejected ==
    (Len(prompt) = 0 \/ max_sequence_length <= 0)
        => (input_ids = prompt /\ pc # "done")

\* C19: the engine is invoked once per iteration, the terminal one
\* included: at the loop head as many calls as appended tokens, from the
\* sampling of an iteration on one more; a run that appended n tokens
\* returns after n + 1 calls
C19_OneCallPerIteration ==
    /\ calls = iters
    /\ pc = "call" => calls = Appended
    /\ pc \in {"check", "done", "error"} => calls = Appended + 1

\* a run that appended two tokens returned after three engine calls
C19_Witness ==
    /\ pc = "done"
    /\ Appended = 2
    /\ calls = 3

\* C21: in every iteration the engine is called and the token sampled
\* before the termination test, and the test comes before any append: at
\* the loop head nothing is appended; the test finds the token sampled from
\* this iteration's call; the sequence and the mask change only by the
\* append that follows a failed test; and in the step at the maximum length
\* the sampled token is dropped, sequence and mask staying as they are
C21_OrderOfEvents ==
    /\ [](pc = "check" => (next_tokens \in Vocab /\ calls = Appended + 1))
    /\ [][pc = "call" =>
            (/\ pc' \in {"check", "error"}
             /\ input_ids' = input_ids
             /\ attention_mask' = attention_mask)]_vars
    /\ [][(input_ids' # input_ids \/ attention_mask' # attention_mask) =>
            (/\ pc = "check"
             /\ Len(input_ids) # max_sequence_length
             /\ next_tokens # eos_token_id
             /\ input_ids' = Append(input_ids, next_tokens)
             /\ attention_mask' = Append(attention_mask, 1))]_vars
    /\ [][(pc = "check" /\ Len(input_ids) = max_sequence_length) =>
            (/\ pc' = "done"
             /\ input_ids' = input_ids
             /\ attention_mask' = attention_mask)]_vars

\* a run that had appended a token returned at the maximum length, dropping
\* a sampled token that was not the end of text token
C21_Witness ==
    /\ pc = "done"
    /\ Appended >= 1
    /\ Len(input_ids) = max_sequence_length
    /\ next_tokens \in Vocab \ {eos_token_id}

\* C22: the engine calls come one after the other, each from the loop head;
\* in dynamic-shape mode the tokens and mask of a call are those of the call
\* before with the token sampled then and a 1 appended; and the logits are
\* read at the last real position, index current length - 1
C22_CallsChained ==
    /\ [][calls' # calls =>
            (pc = "call" /\ pc' # "call" /\ calls' = calls + 1)]_vars
    /\ [][(dynamic_shapes /\ calls >= 1 /\ calls' # calls) =>
            (/\ model_input_ids' = Append(model_input_ids, next_tokens)
             /\ model_input_attention_mask' =
                   Append(model_input_attention_mask, 1))]_vars
    /\ []((pc = "check" /\ Len(input_ids) >= 1) =>
            (/\ logits_position = Len(input_ids) - 1
             /\ logits_position < Len(model_input_ids)))

\* a second call was made in dynamic-shape mode and answered
C22_Witness ==
    /\ dynamic_shapes
    /\ pc = "check"
    /\ calls = 2
    /\ model_input_ids = Append(prompt, input_ids[Len(input_ids)])

\* C26: generate_sequence leaves the caller's data alone: at every point of
\* a run, so also after the return and after a failure, the arrays the
\* caller passed as input_ids and attention_mask hold what they held at the
\* call
C26_CallerDataUntouched ==
    /\ caller_input_ids = prompt
    /\ caller_attention_mask = mask0

\* a fixed-shape run, which pads and had appended a token, returned
C26_Witness ==
    /\ pc = "done"
    /\ ~dynamic_shapes
    /\ Appended >= 1
    /\ Len(model_input_ids) > Len(input_ids)
    /\ caller_input_ids # input_ids

\* a fixed-shape run whose prompt is not longer than max_sequence_length
\* built the model input from the present sequence and mask
PaddedInputBuilt ==
    /\ ~dynamic_shapes
    /\ Len(prompt) <= max_sequence_length
    /\ pc \in {"check", "done", "error"}

\* C27 as stated: the model input has max_sequence_length positions and its
\* mask is 0 exactly on the padding positions
C27_MaskZeroExactlyOnPadding ==
    PaddedInputBuilt =>
        /\ Len(model_input_ids) = max_sequence_length
        /\ Len(model_input_attention_mask) = max_sequence_length
        /\ \A i \in 1 .. max_sequence_length :
              model_input_attention_mask[i] = 0 <=> i > Len(input_ids)

\* C27: in fixed-shape mode with len(prompt) <= max_sequence_length the
\* model input has max_sequence_length token and mask positions, the
\* sequence followed by end of text tokens and the mask followed by 0s; the
\* mask is 0 on every padding position and on a real position only where
\* the caller's mask is 0; and the loop's sequence and mask never hold
\* padding: they are the prompt followed by the appended tokens, none the
\* end of text token, and the caller's mask followed by 1s
C27_FixedShapePadding ==
    /\ PaddedInputBuilt =>
          LET n == Len(input_ids)
          IN /\ Len(model_input_ids) = max_sequence_length
             /\ Len(model_input_attention_mask) = max_sequence_length
             /\ n <= max_sequence_length
             /\ \A i \in 1 .. max_sequence_length :
                   /\ i <= n => /\ model_input_ids[i] = input_ids[i]
                                /\ model_input_attention_mask[i] =
                                      attention_mask[i]
                   /\ i > n => /\ model_input_ids[i] = eos_token_id
                               /\ model_input_attention_mask[i] = 0
                   /\ (i <= n /\ model_input_attention_mask[i] = 0)
                         => (i <= Len(mask0) /\ mask0[i] = 0)
    /\ (~dynamic_shapes /\ Len(prompt) <= max_sequence_length) =>
          /\ Len(input_ids) <= max_sequence_length
          /\ Len(attention_mask) = Len(input_ids)
          /\ IsPrefix(prompt, input_ids)
          /\ IsPrefix(mask0, attention_mask)
          /\ \A i \in (Len(prompt) + 1) .. Len(input_ids) :
                /\ input_ids[i] # eos_token_id
                /\ attention_mask[i] = 1

\* a fixed-shape run whose caller's mask has a 0 padded a sequence that had
\* grown by a token
C27_Witness ==
    /\ PaddedInputBuilt
    /\ pc = "check"
    /\ Appended >= 1
    /\ Len(input_ids) < max_sequence_length
    /\ \E i \in 1 .. Len(mask0) : mask0[i] = 0

----------------------------------------------------------------------------
(* Properties of the post-processing pipeline (checked under SpecTopK) *)

FilteredStages == {"filtered", "normalized", "sampled", "resampled"}

\* top_k brought into 1 .. vocab_size
ClampedK == IF k_in < 1 THEN 1 ELSE IF k_in > VocabSize THEN VocabSize ELSE k_in

\* the k-th highest score of s, counted with repetitions: fewer than k
\* entries lie above it and at least k entries are at or above it
KthHighest(s, k) ==
    CHOOSE v \in {s[i] : i \in DOMAIN s} :
        /\ Cardinality({i \in DOMAIN s : s[i] > v}) < k
        /\ Cardinality({i \in DOMAIN s : s[i] >= v}) >= k

\* the entries top-k filtering keeps: at or above the threshold and unchanged
Retained(s, f, t) == {i \in DOMAIN s : s[i] >= t /\ f[i] = s[i]}

HighestScore(s) == SetMax({s[i] : i \in DOMAIN s})

ArgMaxSet(s) == {i \in DOMAIN s : s[i] = HighestScore(s)}

\* C8: with k the clamped top_k and t the k-th highest score, the filter
\* keeps every entry with score >= t unchanged and sets every entry with
\* score < t to -inf; at least k entries are retained, more than k exactly
\* when the (k+1)-th highest score ties with the k-th, and every entry with
\* the highest score is retained
C8_InclusiveThreshold ==
    stage \in FilteredStages =>
        LET s == next_token_scores
            f == filtred_scores
            k == ClampedK
            t == KthHighest(s, k)
            n == Cardinality(Retained(s, f, t))
        IN /\ \A i \in Vocab : s[i] >= t => f[i] = s[i]
           /\ \A i \in Vocab : s[i] < t => f[i] = NegInf
           /\ n >= k
           /\ n > k <=> (k < VocabSize /\ KthHighest(s, k + 1) = t)
           /\ \A i \in ArgMaxSet(s) : f[i] = s[i]

\* a filter run that removed an entry and, because of a tie at the k-th
\* score, retained more than k entries
C8_Witness ==
    /\ stage = "filtered"
    /\ \E i \in Vocab : filtred_scores[i] = NegInf /\ next_token_scores[i] # NegInf
    /\ Cardinality({i \in Vocab : filtred_scores[i] # NegInf}) > ClampedK
    /\ k_in = 1

\* C9: for top_k >= vocab_size the filter returns the scores unchanged
C9_NoOpAtVocabSize ==
    (stage \in FilteredStages /\ k_in >= VocabSize)
        => filtred_scores = next_token_scores

\* the filter ran with top_k > vocab_size on scores that are not all equal
C9_Witness ==
    /\ stage = "filtered"
    /\ k_in > VocabSize
    /\ \E i, j \in Vocab : next_token_scores[i] < next_token_scores[j]
    /\ filtred_scores = next_token_scores

\* C10 as stated: with top_k = 1 two runs on the same logits choose the same
\* token, an arg-max of the post-processed logits, for all logit vectors
C10_TopOneDeterministic ==
    (stage = "resampled" /\ k_in = 1)
        => /\ token2 = token
           /\ token \in ArgMaxSet(next_token_scores)

\* C10 amended: with top_k = 1 every run chooses an index at which the
\* post-processed logits attain their maximum; when the maximum occurs at
\* exactly one index two runs on the same logits choose the same token
C10_TopOneArgMax ==
    k_in = 1 =>
        /\ stage \in {"sampled", "resampled"}
              => token \in ArgMaxSet(next_token_scores)
        /\ stage = "resampled"
              => /\ token2 \in ArgMaxSet(next_token_scores)
                 /\ Cardinality(ArgMaxSet(next_token_scores)) = 1
                       => token2 = token

\* two runs with top_k = 1 on logits with a single maximum
C10_Witness ==
    /\ stage = "resampled"
    /\ k_in = 1
    /\ Cardinality(ArgMaxSet(next_token_scores)) = 1
    /\ token2 = token

\* the stages at which probs holds the softmax of filtred_scores
NormalizedStages == {"normalized", "sampled", "resampled"}

\* w[0] + ... + w[n - 1]
RECURSIVE PartialSum(_, _)
PartialSum(w, n) == IF n = 0 THEN 0 ELSE PartialSum(w, n - 1) + w[n - 1]

\* C20: the softmax of a filtered row with a finite entry is a probability
\* distribution: the probabilities num[i] / den are not negative and sum
\* to 1 (the numerators sum to the positive denominator), and an entry
\* equal to -inf gets probability 0
C20_SoftmaxIsDistribution ==
    (/\ stage \in NormalizedStages
     /\ \E i \in Vocab : filtred_scores[i] # NegInf)
        => /\ probs.den > 0
           /\ \A i \in Vocab : probs.num[i] >= 0
           /\ PartialSum(probs.num, VocabSize) = probs.den
           /\ \A i \in Vocab : filtred_scores[i] = NegInf => probs.num[i] = 0

\* a row with filtered and unfiltered entries was normalised
C20_Witness ==
    /\ stage = "normalized"
    /\ \E i \in Vocab : filtred_scores[i] = NegInf
    /\ \E i, j \in Vocab : /\ i # j
                           /\ filtred_scores[i] # NegInf
                           /\ filtred_scores[j] # NegInf
                           /\ filtred_scores[i] # filtred_scores[j]

C24_ProcessLogitsFrame ==
    stage # "logits" =>
        /\ cur_length < min_length =>
              /\ next_token_scores[eos_token_id] = NegInf
              /\ \A i \in Vocab \ {eos_token_id} :
                    next_token_scores[i] = next_token_logits[i]
        /\ cur_length >= min_length => next_token_scores = next_token_logits
        /\ min_length = DefaultMinLength => next_token_scores = next_token_logits

\* process_logits ran below the minimum length
C24_Witness ==
    /\ stage = "processed"
    /\ cur_length < min_length
    /\ next_token_scores[eos_token_id] = NegInf
    /\ next_token_logits[eos_token_id] # NegInf

\* the entries of s at or above its k-th highest score, -inf elsewhere
RefTopK(s, k) ==
    [i \in DOMAIN s |-> IF s[i] >= KthHighest(s, k) THEN s[i] ELSE NegInf]

\* C25: top_k is brought into 1 .. vocab_size before filtering: top_k <= 0
\* filters as top_k = 1 and top_k > vocab_size as top_k = vocab_size, and
\* for every top_k the filter gives a score vector with an entry left
C25_TopKClamped ==
    stage \in FilteredStages =>
        /\ k_in <= 0 =>
              /\ filtred_scores = get_top_k_logits(next_token_scores, 1)
              /\ filtred_scores = RefTopK(next_token_scores, 1)
        /\ k_in > VocabSize =>
              /\ filtred_scores = get_top_k_logits(next_token_scores, VocabSize)
              /\ filtred_scores = RefTopK(next_token_scores, VocabSize)
        /\ DOMAIN filtred_scores = Vocab
        /\ \E i \in Vocab : filtred_scores[i] # NegInf

\* a negative top_k filtered an entry out
C25_Witness ==
    /\ stage = "filtered"
    /\ k_in < 0
    /\ \E i \in Vocab : /\ filtred_scores[i] = NegInf
                        /\ next_token_scores[i] # NegInf

\* C28: filtering a filtered score vector again with the same top_k gives
\* the filtered vector
C28_TopKIdempotent ==
    stage = "refiltered" => refiltred_scores = filtred_scores

\* a vector from which the filter had removed an entry, and which holds a
\* tie at the threshold, was filtered again
C28_Witness ==
    /\ stage = "refiltered"
    /\ \E i \in Vocab : /\ filtred_scores[i] = NegInf
                        /\ next_token_scores[i] # NegInf
    /\ \E i, j \in Vocab : /\ i # j
                           /\ filtred_scores[i] = filtred_scores[j]
                           /\ filtred_scores[i] # NegInf

----------------------------------------------------------------------------
(* Properties of the CTC decoding (checked under SpecCTC / SpecCTCShort) *)

\* the lowest index at which row is highest
RefArgMax(row) ==
    CHOOSE i \in DOMAIN row :
        /\ \A j \in DOMAIN row : row[j] <= row[i]
        /\ \A j \in DOMAIN row : j < i => row[j] < row[i]

\* the arg-max label of every time step of a recognition output
RefIndexes(p) == [t \in 1 .. Len(p) |-> RefArgMax(p[t][1])]

\* time step t starts a run of a label other than the blank
RunStart(idx, t) == idx[t] # 0 /\ (t = 1 \/ idx[t - 1] # idx[t])

RECURSIVE RunStartsFrom(_, _)
\* the run starts of idx from time step t on, ascending
RunStartsFrom(idx, t) ==
    IF t > Len(idx) THEN <<>>
    ELSE (IF RunStart(idx, t) THEN <<t>> ELSE <<>>)
             \o RunStartsFrom(idx, t + 1)

RunStarts(idx) == RunStartsFrom(idx, 1)

\* the reference pipeline: arg-max, one label per run, no blank, label i
\* mapped to charlist[i - 1]
RefDecode(p, charlist) ==
    LET idx == RefIndexes(p)
        starts == RunStarts(idx)
    IN [k \in 1 .. Len(starts) |-> charlist[idx[starts[k]]]]

\* C12: for every recognition output the decoding cells produce the text of
\* the reference pipeline; the rows selecting 0,0,2,2,3,0,3 with the
\* charlist A,B,C decode to B,C,C
C12_DecodeEqualsReference ==
    ctc_round = 1 =>
        /\ ctc_pc # "error"
        /\ ctc_pc = "decoded"
              => output_text = RefDecode(engine_output, Tail(letters))
        /\ (ctc_pc = "decoded" /\ engine_output = ExampleOutput)
              => output_text = <<"B", "C", "C">>

\* idx is i times label a, then j blanks, then k times label a
TwoRuns(idx, a, i, j) ==
    /\ i >= 1
    /\ j >= 1
    /\ i + j < Len(idx)
    /\ \A t \in 1 .. Len(idx) :
          idx[t] = IF t <= i \/ t > i + j THEN a ELSE 0

\* C13: the runs are collapsed before the blanks are removed: the decoded
\* text has one symbol per maximal run of a label other than the blank, so
\* two runs of a label with blanks between them give the symbol twice and
\* one run gives it once, and two neighbouring symbols of the text are equal
\* only if a blank time step lies between their runs
C13_CollapseBeforeStrip ==
    ctc_pc = "decoded" =>
        LET idx == predictions_indexes
            starts == RunStarts(idx)
        IN /\ Len(output_text) = Len(starts)
           /\ \A k \in 1 .. Len(starts) :
                 output_text[k] = letters[idx[starts[k]] + 1]
           /\ \A k \in 1 .. (Len(output_text) - 1) :
                 output_text[k] = output_text[k + 1]
                    => \E t \in (starts[k] + 1) .. (starts[k + 1] - 1) :
                          idx[t] = 0
           /\ \A a \in 1 .. (Len(letters) - 1) :
                 /\ (\E i, j \in 1 .. Len(idx) : TwoRuns(idx, a, i, j))
                       => output_text = <<letters[a + 1], letters[a + 1]>>
                 /\ (\A t \in 1 .. Len(idx) : idx[t] = a)
                       => output_text = <<letters[a + 1]>>

\* a label, a blank and the label again were decoded to the symbol twice
C13_Witness ==
    /\ ctc_pc = "decoded"
    /\ ctc_round = 1
    /\ predictions_indexes = <<1, 0, 1>>
    /\ output_text = <<"A", "A">>

\* no two neighbouring symbols of text are equal
NoRepeats(text) == \A k \in 1 .. (Len(text) - 1) : text[k] # text[k + 1]

RECURSIVE MergeRepeatsFrom(_, _)
MergeRepeatsFrom(text, k) ==
    IF k > Len(text) THEN <<>>
    ELSE (IF k = 1 \/ text[k - 1] # text[k] THEN <<text[k]>> ELSE <<>>)
             \o MergeRepeatsFrom(text, k + 1)

\* text with every run of equal neighbouring symbols reduced to one symbol
MergeRepeats(text) == MergeRepeatsFrom(text, 1)

\* C14 as stated: decoding the re-expanded text gives the text again
C14_RoundTrip ==
    (ctc_round = 2 /\ ctc_pc = "decoded") => output_text = first_text

\* C14: decoding the re-expanded text of two or more symbols never fails
\* and gives the text with equal neighbouring symbols merged, the text
\* itself when it has none; a text of fewer than two symbols is re-expanded
\* to fewer than two frames, whose decoding returns nothing
C14_RoundTripMergesRepeats ==
    ctc_round = 2 =>
        /\ Len(first_text) >= 2 =>
              /\ ctc_pc # "error"
              /\ ctc_pc = "decoded" =>
                    /\ output_text = MergeRepeats(first_text)
                    /\ NoRepeats(first_text) => output_text = first_text
        /\ Len(first_text) < 2 => ctc_pc # "decoded"

\* a text of two different symbols was re-expanded and decoded to itself
C14_Witness ==
    /\ ctc_round = 2
    /\ ctc_pc = "decoded"
    /\ Len(first_text) = 2
    /\ NoRepeats(first_text)
    /\ output_text = first_text

\* C15: the decoded text holds no blank and is not longer than the
\* recognition output has time steps, and for an output of at least one
\* time step the decoding ends with the empty text exactly when the arg-max
\* of every time step is the blank
C15_OutputShape ==
    ctc_round = 1 =>
        /\ ctc_pc = "decoded" =>
              /\ \A k \in 1 .. Len(output_text) : output_text[k] # blank_char
              /\ Len(output_text) <= Len(engine_output)
        /\ (Len(engine_output) >= 1 /\ ctc_pc \in {"decoded", "error"}) =>
              ((ctc_pc = "decoded" /\ output_text = <<>>)
                  <=> \A t \in 1 .. Len(engine_output) :
                         RefArgMax(engine_output[t][1]) = 0)

\* C18: with a charlist shorter than the label space of the recognition
\* output (the empty charlist included) the decoding never returns a text
C18_MalformedCharlistFails ==
    (ctc_round = 1 /\ Len(letters) < NumLabels) => ctc_pc # "decoded"

====
